---- MODULE Spec2Model ----
(***************************************************************************)
(* A model of salt_analyzer.py: key extraction and canonicalization, the   *)
(* two counting backends (in-memory Counter, SQLite table), the backend    *)
(* decision and fallback protocol of main, and the second emission pass.   *)
(*                                                                         *)
(* Text is modelled as sequences of one-character tokens.  "LF" and "CR"   *)
(* are the line feed and carriage return characters, "xFF" is a byte that  *)
(* is not valid in the configured encoding and "uFFFD" is the replacement  *)
(* character U+FFFD that errors="replace" decodes it to.                   *)
(***************************************************************************)
EXTENDS Integers, Sequences, FiniteSets, TLC

VARIABLES
    pc,         \* position of the running program
    fn,         \* argument/result record of a directly called pure function
    args,       \* the parsed command line (argparse.Namespace)
    input,      \* the bytes of args.input, as a sequence of raw lines
    disk,       \* the rows of table counts in the SQLite file, key -> count
    lp,         \* locals of the counting/emission loop that is running
    mem_out,    \* what count_salts_memory returned (and most_common of it)
    sql_out,    \* what count_salts_sqlite returned (and fetch_counts_sqlite)
    emit_out,   \* files written and values returned by second_pass_emit
    avail_mem,  \* main: what get_meminfo reported as available memory
    mem_est,    \* main: the estimate preflight_estimate returned
    chosen_method, \* main: the backend of the first counting pass
    counts,     \* main: the Counter returned by the in-memory pass
    rows,       \* main: the sorted (salt, count) rows reported
    total,      \* main: lines read by the pass whose result is reported
    bad,        \* main: lines without a salt in that pass
    passes,     \* the counting passes started in this invocation, in order
    answer,     \* what the user typed at the fallback prompt, if asked
    sampled,    \* main: preflight_estimate was called in this invocation
    run,        \* which invocation of the program this is
    prev        \* rows, total and bad reported by the invocation before

callVars == <<fn, lp, mem_out, sql_out, emit_out>>
mainVars == <<avail_mem, mem_est, chosen_method, counts, rows, total, bad,
              passes, answer, sampled, run, prev>>
vars == <<pc, args, input, disk, callVars, mainVars>>

----------------------------------------------------------------------------
(* Bounds of the model *)

\* longest line of the key-extraction inputs
MaxLineLen == 4
\* most hex digits inside a $HEX[...] wrapper of the canonicalization inputs
MaxHexLen == 2
\* most lines of an input file of the counting and emission passes
MaxLines == 3

----------------------------------------------------------------------------
(* Python values *)

\* Optional[str] results; kind "raise" is an exception leaving the function
NoneV == [kind |-> "none", v |-> <<>>]
Some(x) == [kind |-> "some", v |-> x]
Raise(what) == [kind |-> "raise", v |-> <<what>>]

Max(a, b) == IF a >= b THEN a ELSE b

\* code points of the characters used, for str comparison
Ord(c) ==
    CASE c = "LF" -> 10 [] c = "CR" -> 13 [] c = "$" -> 36
      [] c = "4" -> 52 [] c = ":" -> 58 [] c = "A" -> 65 [] c = "E" -> 69
      [] c = "F" -> 70 [] c = "G" -> 71 [] c = "H" -> 72 [] c = "X" -> 88
      [] c = "[" -> 91 [] c = "]" -> 93 [] c = "a" -> 97 [] c = "b" -> 98
      [] c = "c" -> 99 [] c = "d" -> 100 [] c = "e" -> 101 [] c = "f" -> 102
      [] c = "g" -> 103 [] c = "h" -> 104 [] c = "x" -> 120
      [] c = "uFFFD" -> 65533

\* s < t for two str values (code point order, a proper prefix first)
RECURSIVE StrLess(_, _)
StrLess(s, t) ==
    IF t = <<>> THEN FALSE
    ELSE IF s = <<>> THEN TRUE
    ELSE IF s[1] # t[1] THEN Ord(s[1]) < Ord(t[1])
    ELSE StrLess(Tail(s), Tail(t))

----------------------------------------------------------------------------
(* Parsing: extract_salt and canonicalize_salt *)

\* str.rstrip("\r\n"): drop every trailing CR and LF
RECURSIVE rstrip(_)
rstrip(s) ==
    IF s = <<>> THEN s
    ELSE IF s[Len(s)] \in {"CR", "LF"} THEN rstrip(SubSeq(s, 1, Len(s) - 1))
    ELSE s

\* str.find: the lowest index at or after i where sep occurs in s, 0 if none
RECURSIVE FindFrom(_, _, _)
FindFrom(s, sep, i) ==
    IF i + Len(sep) - 1 > Len(s) THEN 0
    ELSE IF SubSeq(s, i, i + Len(sep) - 1) = sep THEN i
    ELSE FindFrom(s, sep, i + 1)

\* a plausible slip: the highest index where sep occurs (rsplit)
RECURSIVE FindLast(_, _, _)
FindLast(s, sep, i) ==
    IF i < 1 THEN 0
    ELSE IF i + Len(sep) - 1 <= Len(s) /\ SubSeq(s, i, i + Len(sep) - 1) = sep THEN i
    ELSE FindLast(s, sep, i - 1)

SplitAtLast(s, sep) ==
    LET i == FindLast(s, sep, Len(s)) IN
    IF i = 0 THEN <<s>>
    ELSE <<SubSeq(s, 1, i - 1), SubSeq(s, i + Len(sep), Len(s))>>

\* str.split(sep, 1) for a non-empty sep: one part, or the text before and
\* after the first occurrence
SplitOnce(s, sep) ==
    LET i == FindFrom(s, sep, 1) IN
    IF i = 0 THEN <<s>>
    ELSE <<SubSeq(s, 1, i - 1), SubSeq(s, i + Len(sep), Len(s))>>

\* extract_salt(line, sep); str.split raises ValueError on an empty separator
extract_salt(line, sep) ==
    LET l == rstrip(line) IN
    IF l = <<>> THEN NoneV
    ELSE IF sep = <<>> THEN Raise("ValueError")
    ELSE LET parts == SplitOnce(l, sep) IN
         IF Len(parts) # 2 THEN NoneV
         ELSE IF parts[2] # <<>> THEN Some(parts[2]) ELSE NoneV

\* the characters of the model's alphabet that [0-9A-Fa-f] accepts
HexDigits == {"4", "A", "E", "F", "a", "b", "c", "d", "e", "f"}

\* str.lower on one character
LowerChar(c) ==
    CASE c = "A" -> "a" [] c = "E" -> "e" [] c = "F" -> "f" [] c = "G" -> "g"
      [] c = "H" -> "h" [] c = "X" -> "x" [] OTHER -> c

lower(s) == [i \in 1..Len(s) |-> LowerChar(s[i])]

HexPrefix == <<"$", "H", "E", "X", "[">>

\* HEX_SALT_RE.match(s): the group h, or no match.  In a Python pattern "$"
\* matches at the end of the string and also just before a line feed that
\* ends the string.
HexSaltMatch(s) ==
    LET body == IF s # <<>> /\ s[Len(s)] = "LF" THEN SubSeq(s, 1, Len(s) - 1) ELSE s
        fits(t) == /\ Len(t) >= Len(HexPrefix) + 1
                   /\ SubSeq(t, 1, Len(HexPrefix)) = HexPrefix
                   /\ t[Len(t)] = "]"
                   /\ \A i \in (Len(HexPrefix) + 1)..(Len(t) - 1) : t[i] \in HexDigits
        h(t) == SubSeq(t, Len(HexPrefix) + 1, Len(t) - 1)
    IN  IF fits(s) THEN Some(h(s))
        ELSE IF fits(body) THEN Some(h(body))
        ELSE NoneV

\* canonicalize_salt(s, hex_handling)
canonicalize_salt(s, hex_handling) ==
    IF hex_handling = "keep" THEN s
    ELSE LET m == HexSaltMatch(s) IN
         IF m.kind = "some" THEN HexPrefix \o lower(m.v) \o <<"]">> ELSE s

----------------------------------------------------------------------------
(* I/O: open_maybe_gzip *)

\* bytes.decode under the errors policy of open(): strict raises on a byte
\* that is invalid in the encoding, ignore drops it, replace yields U+FFFD
DecodeBytes(raw, errors) ==
    IF errors = "ignore" THEN SelectSeq(raw, LAMBDA c : c # "xFF")
    ELSE [i \in 1..Len(raw) |-> IF raw[i] = "xFF" THEN "uFFFD" ELSE raw[i]]

\* universal newlines of text mode: a line ending CR LF is yielded ending LF
TranslateNewline(text) ==
    IF Len(text) >= 2 /\ text[Len(text) - 1] = "CR" /\ text[Len(text)] = "LF"
    THEN SubSeq(text, 1, Len(text) - 2) \o <<"LF">>
    ELSE text

Undecodable(raw) == \E i \in 1..Len(raw) : raw[i] = "xFF"

\* a plausible slip: errors="replace" raising like strict
OpenRaisesAlways(file, errors) ==
    errors \in {"strict", "replace"} /\ \E i \in 1..Len(file) : Undecodable(file[i])

\* Whether iterating open_maybe_gzip(path, encoding, errors) raises
\* UnicodeDecodeError.  The files of the model are shorter than one read
\* buffer of the text layer, which is decoded as a whole, so the error of a
\* strict decode is raised by the first read, before any line is yielded.
OpenRaises(file, errors) ==
    errors = "strict" /\ \E i \in 1..Len(file) : Undecodable(file[i])

\* the i-th line open_maybe_gzip yields
TextLine(file, errors, i) == TranslateNewline(DecodeBytes(file[i], errors))

----------------------------------------------------------------------------
(* Counting in memory: count_salts_memory and Counter.most_common *)

\* counts[salt] += 1 on a Counter, a dict that keeps insertion order; the
\* Counter is the sequence of its (key, count) items
CounterAdd(cnt, k) ==
    IF \E i \in 1..Len(cnt) : cnt[i][1] = k
    THEN [i \in 1..Len(cnt) |-> IF cnt[i][1] = k THEN <<k, cnt[i][2] + 1>> ELSE cnt[i]]
    ELSE Append(cnt, <<k, 1>>)

\* one iteration of the loop of count_salts_memory
MemLine(st, line, a) ==
    LET salt == extract_salt(line, a.sep) IN
    IF salt.kind = "raise" THEN [st EXCEPT !.total = @ + 1, !.exc = salt.v[1]]
    ELSE IF salt.kind = "none" THEN [st EXCEPT !.total = @ + 1, !.bad = @ + 1]
    ELSE [st EXCEPT !.total = @ + 1,
                    !.counts = CounterAdd(@, canonicalize_salt(salt.v, a.hex_salts))]

\* the locals of count_salts_memory before its loop
MemStart ==
    [fn |-> "count_salts_memory", pos |-> 0, counts |-> <<>>, total |-> 0,
     bad |-> 0, exc |-> ""]

\* sorted(items, key=count, reverse=True): a stable sort, so items of equal
\* count stay in the order the Counter holds them (first appearance)
RECURSIVE StableByCount(_, _)
StableByCount(done, todo) ==
    IF todo = <<>> THEN done
    ELSE LET x == Head(todo)
             k == Cardinality({i \in 1..Len(done) : done[i][2] >= x[2]})
         IN  StableByCount(SubSeq(done, 1, k) \o <<x>> \o SubSeq(done, k + 1, Len(done)),
                           Tail(todo))

\* Counter.most_common()
most_common(cnt) == StableByCount(<<>>, cnt)

----------------------------------------------------------------------------
(* Counting in SQLite: count_salts_sqlite and fetch_counts_sqlite *)

\* table counts without a row
EmptyTable == <<>>

\* keys per transaction; the program's 5000, scaled to the model's files
BATCH_SIZE == 2

\* INSERT ... ON CONFLICT(salt) DO UPDATE SET c = c + 1
Upsert(table, s) ==
    IF s \in DOMAIN table THEN [table EXCEPT ![s] = @ + 1]
    ELSE [k \in DOMAIN table \cup {s} |-> IF k = s THEN 1 ELSE table[k]]

\* flush_batch: one transaction upserting every key of the batch
RECURSIVE flush_batch(_, _)
flush_batch(table, batch) ==
    IF batch = <<>> THEN table
    ELSE flush_batch(Upsert(table, Head(batch)), Tail(batch))

\* a plausible slip: the loop only collects, nothing is flushed before the
\* end of the input
SqlLineNoFlush(st, line, a) ==
    LET salt == extract_salt(line, a.sep) IN
    IF salt.kind = "raise" THEN [st EXCEPT !.total = @ + 1, !.exc = salt.v[1]]
    ELSE IF salt.kind = "none" THEN [st EXCEPT !.total = @ + 1, !.bad = @ + 1]
    ELSE [st EXCEPT !.total = @ + 1,
                    !.batch = Append(@, canonicalize_salt(salt.v, a.hex_salts))]

\* one iteration of the loop of count_salts_sqlite; table is the committed
\* content of table counts
SqlLine(st, line, a) ==
    LET salt == extract_salt(line, a.sep) IN
    IF salt.kind = "raise" THEN [st EXCEPT !.total = @ + 1, !.exc = salt.v[1]]
    ELSE IF salt.kind = "none" THEN [st EXCEPT !.total = @ + 1, !.bad = @ + 1]
    ELSE LET b == Append(st.batch, canonicalize_salt(salt.v, a.hex_salts)) IN
         IF Len(b) >= BATCH_SIZE
         THEN [st EXCEPT !.total = @ + 1, !.table = flush_batch(@, b), !.batch = <<>>]
         ELSE [st EXCEPT !.total = @ + 1, !.batch = b]

\* The table count_salts_sqlite counts into: without --sqlite-db a new
\* temporary file, else the file at that path, which CREATE TABLE IF NOT
\* EXISTS leaves as it is when it already holds the table.
OpenTable(db_path, onDisk) == IF db_path = "" THEN EmptyTable ELSE onDisk

\* the locals of count_salts_sqlite before its loop
SqlStart(db_path, onDisk) ==
    [fn |-> "count_salts_sqlite", pos |-> 0, table |-> OpenTable(db_path, onDisk),
     batch |-> <<>>, total |-> 0, bad |-> 0, exc |-> ""]

\* a plausible slip: the batch left after the loop is never flushed
SqlFinishNoFlush(st) == [st EXCEPT !.batch = <<>>]

\* the flush_batch() after the loop of count_salts_sqlite
SqlFinish(st) == [st EXCEPT !.table = flush_batch(@, st.batch), !.batch = <<>>]

\* ORDER BY c DESC, salt ASC (BINARY collation: code point order)
RowBefore(r, q) == r[2] > q[2] \/ (r[2] = q[2] /\ StrLess(r[1], q[1]))

RECURSIVE OrderRows(_)
OrderRows(S) ==
    IF S = {} THEN <<>>
    ELSE LET r == CHOOSE x \in S : \A y \in S \ {x} : RowBefore(x, y)
         IN  <<r>> \o OrderRows(S \ {r})

\* fetch_counts_sqlite(db_path)
fetch_counts_sqlite(table) == OrderRows({<<k, table[k]>> : k \in DOMAIN table})

----------------------------------------------------------------------------
(* Emission: second_pass_emit *)

\* the locals of second_pass_emit before its loop: both kinds of output
\* file are opened for writing, which empties them.  A per-salt file is
\* named after sanitize_for_filename(salt_key), which ends in a digest of
\* the key; the model names the file by the key.
EmitStart ==
    [fn |-> "second_pass_emit", pos |-> 0, examined |-> 0, emitted |-> 0,
     combined |-> <<>>, writers |-> <<>>, exc |-> ""]

WriteTo(writers, name, line) ==
    IF name \in DOMAIN writers THEN [writers EXCEPT ![name] = Append(@, line)]
    ELSE [k \in DOMAIN writers \cup {name} |-> IF k = name THEN <<line>> ELSE writers[k]]

\* a plausible slip: the extracted key is looked up as it is, not in its
\* canonical form
EmitLineRawKey(st, line, a, c) ==
    LET raw_salt == extract_salt(line, a.sep) IN
    IF raw_salt.kind = "raise" THEN [st EXCEPT !.examined = @ + 1, !.exc = raw_salt.v[1]]
    ELSE IF raw_salt.kind = "none" THEN [st EXCEPT !.examined = @ + 1]
    ELSE IF raw_salt.v \notin c.selected THEN [st EXCEPT !.examined = @ + 1]
    ELSE [st EXCEPT !.examined = @ + 1,
                    !.combined = IF c.combined THEN Append(@, line) ELSE @,
                    !.writers = IF c.per_salt THEN WriteTo(@, raw_salt.v, line) ELSE @,
                    !.emitted = @ + 1]

\* one iteration of the loop of second_pass_emit; c holds selected_salts,
\* per_salt and whether combined_path is given
EmitLine(st, line, a, c) ==
    LET raw_salt == extract_salt(line, a.sep) IN
    IF raw_salt.kind = "raise" THEN [st EXCEPT !.examined = @ + 1, !.exc = raw_salt.v[1]]
    ELSE IF raw_salt.kind = "none" THEN [st EXCEPT !.examined = @ + 1]
    ELSE LET salt_key == canonicalize_salt(raw_salt.v, a.hex_salts) IN
         IF salt_key \notin c.selected THEN [st EXCEPT !.examined = @ + 1]
         ELSE [st EXCEPT !.examined = @ + 1,
                         !.combined = IF c.combined THEN Append(@, line) ELSE @,
                         !.writers = IF c.per_salt THEN WriteTo(@, salt_key, line) ELSE @,
                         !.emitted = @ + 1]

----------------------------------------------------------------------------
(* Whole passes, as main calls them *)

Returned(x) == [kind |-> "returned", v |-> x]

RECURSIVE MemLoop(_, _, _)
MemLoop(st, file, a) ==
    IF st.exc # "" \/ st.pos = Len(file) THEN st
    ELSE MemLoop([MemLine(st, TextLine(file, a.errors, st.pos + 1), a)
                     EXCEPT !.pos = @ + 1], file, a)

\* count_salts_memory(path, ...): the Counter, total and bad, or the
\* exception that leaves it
count_salts_memory(file, a) ==
    IF OpenRaises(file, a.errors) THEN Raise("UnicodeDecodeError")
    ELSE LET st == MemLoop(MemStart, file, a) IN
         IF st.exc # "" THEN Raise(st.exc)
         ELSE Returned([counts |-> st.counts, total |-> st.total, bad |-> st.bad])

RECURSIVE SqlLoop(_, _, _)
SqlLoop(st, file, a) ==
    IF st.exc # "" \/ st.pos = Len(file) THEN st
    ELSE SqlLoop([SqlLine(st, TextLine(file, a.errors, st.pos + 1), a)
                     EXCEPT !.pos = @ + 1], file, a)

\* count_salts_sqlite(path, ..., db_path, ...): the table it leaves, total
\* and bad, or the exception that leaves it and the table committed so far
count_salts_sqlite(file, a, db_path, onDisk) ==
    IF OpenRaises(file, a.errors)
    THEN [kind |-> "raise", v |-> <<"UnicodeDecodeError">>,
          table |-> OpenTable(db_path, onDisk)]
    ELSE LET st == SqlLoop(SqlStart(db_path, onDisk), file, a) IN
         IF st.exc # "" THEN [kind |-> "raise", v |-> <<st.exc>>, table |-> st.table]
         ELSE LET fin == SqlFinish(st) IN
              [kind |-> "returned",
               v |-> [table |-> fin.table, total |-> fin.total, bad |-> fin.bad],
               table |-> fin.table]

RECURSIVE EmitLoop(_, _, _, _)
EmitLoop(st, file, a, c) ==
    IF st.exc # "" \/ st.pos = Len(file) THEN st
    ELSE EmitLoop([EmitLine(st, TextLine(file, a.errors, st.pos + 1), a, c)
                      EXCEPT !.pos = @ + 1], file, a, c)

\* second_pass_emit(path, ..., selected_salts, out_dir, per_salt,
\* combined_path, ...): the files it leaves and (examined, emitted), or the
\* exception that leaves it
second_pass_emit(file, a, c) ==
    IF OpenRaises(file, a.errors)
    THEN [kind |-> "raise", v |-> <<"UnicodeDecodeError">>,
          combined |-> <<>>, writers |-> <<>>, call |-> c]
    ELSE LET st == EmitLoop(EmitStart, file, a, c) IN
         IF st.exc # ""
         THEN [kind |-> "raise", v |-> <<st.exc>>,
               combined |-> st.combined, writers |-> st.writers, call |-> c]
         ELSE [kind |-> "returned",
               v |-> [examined |-> st.examined, emitted |-> st.emitted],
               combined |-> st.combined, writers |-> st.writers, call |-> c]

----------------------------------------------------------------------------
(* Preflight estimator: preflight_estimate.  Python floats are modelled as *)
(* exact fractions <<numerator, denominator>> with a positive denominator. *)

Frac(n, d) == <<n, d>>
FMul(x, y) == <<x[1] * y[1], x[2] * y[2]>>
FAdd(x, y) == <<x[1] * y[2] + y[1] * x[2], x[2] * y[2]>>
FLeq(x, y) == x[1] * y[2] <= y[1] * x[2]
FMax(x, y) == IF FLeq(x, y) THEN y ELSE x
FMin(x, y) == IF FLeq(x, y) THEN x ELSE y
\* int(x): truncation toward zero
FInt(x) == IF x[1] >= 0 THEN x[1] \div x[2] ELSE -((-x[1]) \div x[2])

\* len(line.encode("utf-8", errors="ignore")): U+FFFD takes three bytes
RECURSIVE EncodedLen(_)
EncodedLen(text) ==
    IF text = <<>> THEN 0
    ELSE (IF Head(text) = "uFFFD" THEN 3 ELSE 1) + EncodedLen(Tail(text))

\* os.path.getsize(path)
RECURSIVE FileSize(_)
FileSize(file) == IF file = <<>> THEN 0 ELSE Len(Head(file)) + FileSize(Tail(file))

\* the sampling loop of preflight_estimate: it stops after the line that
\* makes lines >= sample_lines
RECURSIVE SampleLoop(_, _, _)
SampleLoop(st, file, a) ==
    IF st.exc # "" \/ st.lines = Len(file) \/ (st.lines >= 1 /\ st.lines >= a.preflight_lines)
    THEN st
    ELSE LET line == TextLine(file, a.errors, st.lines + 1)
             s == extract_salt(line, a.sep)
             st1 == [st EXCEPT !.lines = @ + 1, !.bytes_sum = @ + EncodedLen(line)]
         IN  IF s.kind = "raise" THEN [st1 EXCEPT !.exc = s.v[1]]
             ELSE IF s.kind = "none" THEN SampleLoop(st1, file, a)
             ELSE LET k == canonicalize_salt(s.v, a.hex_salts) IN
                  SampleLoop([st1 EXCEPT !.uniq = @ \cup {k},
                                         !.salt_len_sum = @ + Len(k),
                                         !.valid = @ + 1], file, a)

\* lines_est of a file that is not gzip-compressed
LinesEst(total_bytes, bytes_sum, lines) ==
    Max(1, FInt(FMul(Frac(total_bytes, 1),
                     IF bytes_sum >= lines THEN Frac(lines, bytes_sum) ELSE Frac(1, 1))))

\* uniq_est
UniqEst(a, lines_est, uniq_sample, lines) ==
    IF lines_est.known
    THEN FInt(FMin(Frac(lines_est.v, 1),
                   FMax(Frac(uniq_sample, 1),
                        FMul(FMul(a.preflight_uniq_growth, Frac(uniq_sample, lines)),
                             Frac(lines_est.v, 1)))))
    ELSE FInt(FMax(Frac(uniq_sample, 1),
                   FMul(FMul(a.preflight_uniq_growth, Frac(uniq_sample, 1)),
                        a.preflight_gz_multiplier)))

\* preflight_estimate(path, ...): mem_est (or None) and the debug values,
\* or the exception that leaves it
preflight_estimate(file, a) ==
    IF OpenRaises(file, a.errors) THEN Raise("UnicodeDecodeError")
    ELSE LET st == SampleLoop([lines |-> 0, valid |-> 0, uniq |-> {}, salt_len_sum |-> 0,
                               bytes_sum |-> 0, exc |-> ""], file, a)
         IN  IF st.exc # "" THEN Raise(st.exc)
             ELSE IF st.lines = 0 \/ st.valid = 0
             THEN Returned([mem_est |-> [known |-> FALSE, v |-> 0],
                            lines_est |-> [known |-> FALSE, v |-> 0],
                            uniq_sample |-> 0, uniq_est |-> 0])
             ELSE LET uniq_sample == Cardinality(st.uniq)
                      lines_est == IF a.gz THEN [known |-> FALSE, v |-> 0]
                                   ELSE [known |-> TRUE,
                                         v |-> LinesEst(FileSize(file), st.bytes_sum, st.lines)]
                      uniq_est == UniqEst(a, lines_est, uniq_sample, st.lines)
                      mem_per_unique == FAdd(a.mem_overhead_base,
                                             FMul(a.mem_overhead_per_char,
                                                  Frac(st.salt_len_sum, st.valid)))
                  IN  Returned([mem_est |-> [known |-> TRUE,
                                             v |-> FInt(FMul(mem_per_unique, Frac(uniq_est, 1)))],
                                lines_est |-> lines_est,
                                uniq_sample |-> uniq_sample, uniq_est |-> uniq_est])

----------------------------------------------------------------------------
(* Helpers of main *)

\* str.strip() of the answer typed at the prompt
RECURSIVE lstrip(_)
lstrip(s) == IF s # <<>> /\ Head(s) = " " THEN lstrip(Tail(s)) ELSE s
RECURSIVE rstripSpace(_)
rstripSpace(s) ==
    IF s # <<>> /\ s[Len(s)] = " " THEN rstripSpace(SubSeq(s, 1, Len(s) - 1)) ELSE s
strip(s) == rstripSpace(lstrip(s))

LowerAnswerChar(c) ==
    CASE c = "Y" -> "y" [] c = "S" -> "s" [] c = "N" -> "n" [] OTHER -> LowerChar(c)

\* a plausible slip: an empty answer or the end of input taken as yes
ask_yes_no_default_yes(typed, default) ==
    IF typed.kind = "eof" THEN TRUE
    ELSE LET resp == [i \in 1..Len(strip(typed.v)) |-> LowerAnswerChar(strip(typed.v)[i])] IN
         IF resp = <<>> THEN TRUE
         ELSE resp \in {<<"y">>, <<"y", "e", "s">>}

\* ask_yes_no(prompt, default), typed being what input() reads: a line, or
\* the end of input (EOFError)
ask_yes_no(typed, default) ==
    IF typed.kind = "eof" THEN default
    ELSE LET resp == [i \in 1..Len(strip(typed.v)) |-> LowerAnswerChar(strip(typed.v)[i])] IN
         IF resp = <<>> THEN default
         ELSE resp \in {<<"y">>, <<"y", "e", "s">>}

\* budget = int(args.mem_budget_frac * avail_mem)
Budget(a, avail) == FInt(FMul(a.mem_budget_frac, Frac(avail, 1)))

\* a plausible slip: an estimate equal to the budget already switches
PreflightChoiceAtBudget(a, avail, est) ==
    IF est.known /\ est.v >= Budget(a, avail.v) /\ a.method = "auto" THEN "sqlite"
    ELSE a.method

\* a plausible slip: the estimate switches the backend whatever --method is
PreflightChoiceAnyMethod(a, avail, est) ==
    IF est.known /\ est.v > Budget(a, avail.v) THEN "sqlite"
    ELSE a.method

\* chosen_method after the preflight, given the available memory (known)
\* and the estimate
PreflightChoice(a, avail, est) ==
    IF est.known /\ est.v > Budget(a, avail.v) /\ a.method = "auto" THEN "sqlite"
    ELSE a.method

\* the condition under which main considers the fallback
FallbackTriggered(a, chosen, uniq) ==
    a.method = "auto" /\ chosen # "sqlite" /\ uniq > a.sqlite_threshold

\* the keys of rows[:n]
TopKeys(rws, n) == {rws[i][1] : i \in 1..(IF n < Len(rws) THEN n ELSE Len(rws))}

\* a plausible slip: the explicit salts are selected as they were typed
SelectionsRaw(a, rws) ==
    (IF a.emit_combined > 0 THEN TopKeys(rws, a.emit_combined) ELSE {})
    \cup (IF a.emit_per_salt > 0 THEN TopKeys(rws, a.emit_per_salt) ELSE {})
    \cup {a.select_salts[i] : i \in 1..Len(a.select_salts)}

\* main, "Build selection for Pass 2": selections
Selections(a, rws) ==
    (IF a.emit_combined > 0 THEN TopKeys(rws, a.emit_combined) ELSE {})
    \cup (IF a.emit_per_salt > 0 THEN TopKeys(rws, a.emit_per_salt) ELSE {})
    \cup {canonicalize_salt(a.select_salts[i], a.hex_salts) : i \in 1..Len(a.select_salts)}

\* the arguments main gives second_pass_emit: selected_salts, per_salt and
\* whether combined_path is set
EmitCall(a, rws) ==
    [selected |-> Selections(a, rws),
     per_salt |-> a.emit_per_salt > 0
                  \/ (a.select_salts # <<>> /\ a.emit_per_salt = 0 /\ a.emit_combined = 0),
     combined |-> a.emit_combined > 0]

----------------------------------------------------------------------------
(* Values of the variables a specification does not use *)

NoCall == [op |-> "none"]
NoArgs == [method |-> "none"]
NoLoop == [fn |-> "none"]
NoOut == [kind |-> "none", v |-> <<>>]
NoInt == [known |-> FALSE, v |-> 0]
Known(n) == [known |-> TRUE, v |-> n]

MainIdle ==
    /\ avail_mem = NoInt /\ mem_est = NoInt /\ chosen_method = "none"
    /\ counts = <<>> /\ rows = <<>> /\ total = 0 /\ bad = 0
    /\ passes = <<>> /\ answer = NoOut /\ sampled = FALSE
    /\ run = 1 /\ prev = NoOut

SeqsUpTo(S, n) == UNION {[1..k -> S] : k \in 0..n}

----------------------------------------------------------------------------
(* SpecExtract: extract_salt called on every line and separator *)

ExtractChars == {"a", ":", "CR", "LF"}
ExampleLine == <<"a", "b", "c", ":", "d", "e", ":", "f">>
ExtractLines == SeqsUpTo(ExtractChars, MaxLineLen) \cup {ExampleLine, ExampleLine \o <<"CR", "LF">>}
ExtractSeps == {<<":">>, <<":", ":">>, <<"a", ":">>, <<>>}

InitExtract ==
    /\ pc = "call"
    /\ fn \in [op : {"extract_salt"}, line : ExtractLines, sep : ExtractSeps, out : {NoOut}]
    /\ args = NoArgs /\ input = <<>> /\ disk = EmptyTable /\ lp = NoLoop
    /\ mem_out = NoOut /\ sql_out = NoOut /\ emit_out = NoOut
    /\ MainIdle

CallExtract ==
    /\ pc = "call" /\ fn.op = "extract_salt"
    /\ fn' = [fn EXCEPT !.out = extract_salt(fn.line, fn.sep)]
    /\ pc' = "returned"
    /\ UNCHANGED <<args, input, disk, lp, mem_out, sql_out, emit_out, mainVars>>

SpecExtract == InitExtract /\ [][CallExtract]_vars

----------------------------------------------------------------------------
(* SpecCanon: canonicalize_salt called on a key, then on its own result *)

KeyPrefixes == {HexPrefix, <<"$", "h", "e", "x", "[">>, <<"H", "E", "X", "[">>,
                <<"x">> \o HexPrefix, <<>>}
KeySuffixes == {<<"]">>, <<>>, <<"]", "LF">>, <<"]", "CR">>, <<"]", "x">>}
KeyBodyChars == {"4", "A", "a", "G"}
CanonKeys == {p \o b \o s : p \in KeyPrefixes, b \in SeqsUpTo(KeyBodyChars, MaxHexLen),
                            s \in KeySuffixes}
HexModes == {"keep", "decode"}

InitCanon ==
    /\ pc = "call"
    /\ fn \in [op : {"canonicalize_salt"}, s : CanonKeys, mode : HexModes,
               out : {NoOut}, again : {NoOut}]
    /\ args = NoArgs /\ input = <<>> /\ disk = EmptyTable /\ lp = NoLoop
    /\ mem_out = NoOut /\ sql_out = NoOut /\ emit_out = NoOut
    /\ MainIdle

CallCanon ==
    /\ pc = "call" /\ fn.op = "canonicalize_salt"
    /\ fn' = [fn EXCEPT !.out = Some(canonicalize_salt(fn.s, fn.mode))]
    /\ pc' = "called"
    /\ UNCHANGED <<args, input, disk, lp, mem_out, sql_out, emit_out, mainVars>>

CallCanonAgain ==
    /\ pc = "called" /\ fn.op = "canonicalize_salt"
    /\ fn' = [fn EXCEPT !.again = Some(canonicalize_salt(fn.out.v, fn.mode))]
    /\ pc' = "returned"
    /\ UNCHANGED <<args, input, disk, lp, mem_out, sql_out, emit_out, mainVars>>

SpecCanon == InitCanon /\ [][CallCanon \/ CallCanonAgain]_vars

----------------------------------------------------------------------------
(* Claims about extract_salt *)

\* the line with every trailing CR and LF removed, stated without rstrip
Stripped(line) ==
    CHOOSE l \in {SubSeq(line, 1, k) : k \in 0..Len(line)} :
        /\ l = <<>> \/ l[Len(l)] \notin {"CR", "LF"}
        /\ \A j \in (Len(l) + 1)..Len(line) : line[j] \in {"CR", "LF"}

OccursAt(l, sep, i) ==
    /\ i >= 1 /\ i + Len(sep) - 1 <= Len(l)
    /\ \A k \in 1..Len(sep) : l[i + k - 1] = sep[k]

FirstOcc(l, sep, i) == OccursAt(l, sep, i) /\ \A j \in 1..(i - 1) : ~OccursAt(l, sep, j)

AfterAt(l, sep, i) == SubSeq(l, i + Len(sep), Len(l))

\* what the claim says extract_salt returns for a line and a separator
ExtractAsClaimed(line, sep, out) ==
    LET l == Stripped(line)
        occ == {i \in 1..(Len(l) + 1) : FirstOcc(l, sep, i)}
    IN  /\ out.kind \in {"some", "none"}
        /\ out.kind = "none" <=>
               \/ l = <<>>
               \/ occ = {}
               \/ \E i \in occ : AfterAt(l, sep, i) = <<>>
        /\ out.kind = "some" =>
               /\ out.v # <<>>
               /\ \E i \in occ : out.v = AfterAt(l, sep, i)

\* C9 as stated: for every line and every separator, extract_salt returns
\* the text after the first occurrence of the separator, and no key exactly
\* when the stripped line is empty, the separator does not occur or the text
\* after it is empty; it never returns the empty string as a key.
C9_AsStated ==
    (pc = "returned" /\ fn.op = "extract_salt") =>
        ExtractAsClaimed(fn.line, fn.sep, fn.out)

\* C9 amended: the same for every non-empty separator; with an empty
\* separator extract_salt returns no key for a line that is empty once
\* stripped and raises ValueError for every other line.
C9_Extract ==
    (pc = "returned" /\ fn.op = "extract_salt") =>
        IF fn.sep # <<>>
        THEN ExtractAsClaimed(fn.line, fn.sep, fn.out)
        ELSE IF Stripped(fn.line) = <<>> THEN fn.out = NoneV
             ELSE fn.out = Raise("ValueError")

C9_Witness ==
    /\ pc = "returned" /\ fn.op = "extract_salt"
    /\ fn.line = ExampleLine \o <<"CR", "LF">> /\ fn.sep = <<":">>
    /\ fn.out = Some(<<"d", "e", ":", "f">>)

----------------------------------------------------------------------------
(* Claims about canonicalize_salt *)

\* the whole key has the form $HEX[<hex digits>]
WholeHexForm(s) ==
    /\ Len(s) >= Len(HexPrefix) + 1
    /\ \A i \in 1..Len(HexPrefix) : s[i] = HexPrefix[i]
    /\ s[Len(s)] = "]"
    /\ \A i \in (Len(HexPrefix) + 1)..(Len(s) - 1) : s[i] \in HexDigits

\* C10 as stated: canonicalize_salt is idempotent under both modes; under
\* keep it returns its input; under decode it lower-cases the hex digits of
\* a key that as a whole has the form $HEX[<hex digits>] and returns every
\* other key unchanged.
C10_AsStated ==
    (pc = "returned" /\ fn.op = "canonicalize_salt") =>
        /\ fn.again = fn.out
        /\ fn.mode = "keep" => fn.out.v = fn.s
        /\ fn.mode = "decode" =>
               IF WholeHexForm(fn.s)
               THEN /\ Len(fn.out.v) = Len(fn.s)
                    /\ \A i \in 1..Len(fn.s) :
                           fn.out.v[i] = IF i > Len(HexPrefix) THEN LowerChar(fn.s[i])
                                         ELSE fn.s[i]
               ELSE fn.out.v = fn.s

----------------------------------------------------------------------------
(* SpecCount: both backends run line by line on the same file, the on-disk *)
(* backend on a new table                                                  *)

La == <<"h", ":", "a", "LF">>
Lb == <<"h", ":", "b", "CR", "LF">>
Lx == <<"x", "LF">>
Lbad == <<"h", ":", "xFF", "LF">>
LhexU == <<"h", ":", "$", "H", "E", "X", "[", "4", "A", "]", "LF">>
LhexL == <<"h", ":", "$", "H", "E", "X", "[", "4", "a", "]", "LF">>
CountPool == {La, Lb, Lx, Lbad, LhexU, LhexL}
CountSeps == {<<":">>, <<"$">>, <<>>}
ErrorPolicies == {"strict", "ignore", "replace"}

InitCount ==
    /\ pc = "start"
    /\ args \in [sep : CountSeps, errors : ErrorPolicies, hex_salts : HexModes]
    /\ input \in SeqsUpTo(CountPool, MaxLines)
    /\ disk = EmptyTable /\ lp = NoLoop /\ fn = NoCall
    /\ mem_out = NoOut /\ sql_out = NoOut /\ emit_out = NoOut
    /\ MainIdle

\* count_salts_memory up to its loop
MemoryOpen ==
    /\ pc = "start"
    /\ IF OpenRaises(input, args.errors)
       THEN /\ mem_out' = Raise("UnicodeDecodeError")
            /\ pc' = "mem_done"
            /\ lp' = NoLoop
       ELSE /\ lp' = MemStart
            /\ pc' = "mem_loop"
            /\ mem_out' = mem_out
    /\ UNCHANGED <<args, input, disk, fn, sql_out, emit_out, mainVars>>

\* one line of count_salts_memory
MemoryLine ==
    /\ pc = "mem_loop" /\ lp.pos < Len(input)
    /\ LET st == MemLine(lp, TextLine(input, args.errors, lp.pos + 1), args) IN
       IF st.exc # ""
       THEN /\ mem_out' = Raise(st.exc)
            /\ pc' = "mem_done"
            /\ lp' = NoLoop
       ELSE /\ lp' = [st EXCEPT !.pos = @ + 1]
            /\ UNCHANGED <<pc, mem_out>>
    /\ UNCHANGED <<args, input, disk, fn, sql_out, emit_out, mainVars>>

\* the return of count_salts_memory, and most_common of its Counter
MemoryReturn ==
    /\ pc = "mem_loop" /\ lp.pos = Len(input)
    /\ mem_out' = Returned([counts |-> lp.counts, total |-> lp.total, bad |-> lp.bad,
                            rows |-> most_common(lp.counts)])
    /\ pc' = "mem_done"
    /\ lp' = NoLoop
    /\ UNCHANGED <<args, input, disk, fn, sql_out, emit_out, mainVars>>

\* count_salts_sqlite up to its loop, with db_path not given
SqliteOpen ==
    /\ pc = "mem_done"
    /\ IF OpenRaises(input, args.errors)
       THEN /\ sql_out' = Raise("UnicodeDecodeError")
            /\ pc' = "done"
            /\ lp' = NoLoop
       ELSE /\ lp' = SqlStart("", disk)
            /\ pc' = "sql_loop"
            /\ sql_out' = sql_out
    /\ UNCHANGED <<args, input, disk, fn, mem_out, emit_out, mainVars>>

\* one line of count_salts_sqlite
SqliteLine ==
    /\ pc = "sql_loop" /\ lp.pos < Len(input)
    /\ LET st == SqlLine(lp, TextLine(input, args.errors, lp.pos + 1), args) IN
       IF st.exc # ""
       THEN /\ sql_out' = Raise(st.exc)
            /\ pc' = "done"
            /\ lp' = NoLoop
       ELSE /\ lp' = [st EXCEPT !.pos = @ + 1]
            /\ UNCHANGED <<pc, sql_out>>
    /\ UNCHANGED <<args, input, disk, fn, mem_out, emit_out, mainVars>>

\* the last flush and the return of count_salts_sqlite, and
\* fetch_counts_sqlite of the table
SqliteReturn ==
    /\ pc = "sql_loop" /\ lp.pos = Len(input)
    /\ LET st == SqlFinish(lp) IN
       sql_out' = Returned([table |-> st.table, total |-> st.total, bad |-> st.bad,
                            rows |-> fetch_counts_sqlite(st.table)])
    /\ pc' = "done"
    /\ lp' = NoLoop
    /\ UNCHANGED <<args, input, disk, fn, mem_out, emit_out, mainVars>>

NextCount ==
    \/ MemoryOpen \/ MemoryLine \/ MemoryReturn
    \/ SqliteOpen \/ SqliteLine \/ SqliteReturn

SpecCount == InitCount /\ [][NextCount]_vars

----------------------------------------------------------------------------
(* Claims about the counting passes *)

RECURSIVE SumCounts(_)
SumCounts(rws) == IF rws = <<>> THEN 0 ELSE Head(rws)[2] + SumCounts(Tail(rws))

\* C2 as stated: on the same file and parameters the in-memory backend and
\* the on-disk backend on a fresh table return the same (key, count) rows in
\* the same order, and the same total and invalid line counts.
C2_AsStated ==
    (pc = "done" /\ mem_out.kind = "returned" /\ sql_out.kind = "returned") =>
        /\ mem_out.v.rows = sql_out.v.rows
        /\ mem_out.v.total = sql_out.v.total
        /\ mem_out.v.bad = sql_out.v.bad

\* C4: after a complete counting pass that started with an empty table,
\* invalid_lines plus the sum of all counts equals total_lines, total_lines
\* is the number of lines of the file and invalid_lines the number of lines
\* for which extract_salt returned no key.
C4_Totals ==
    LET invalid == Cardinality({i \in 1..Len(input) :
                       extract_salt(TextLine(input, args.errors, i), args.sep) = NoneV})
    IN  /\ mem_out.kind = "returned" =>
            /\ mem_out.v.bad + SumCounts(mem_out.v.counts) = mem_out.v.total
            /\ mem_out.v.total = Len(input)
            /\ mem_out.v.bad = invalid
        /\ sql_out.kind = "returned" =>
            /\ sql_out.v.bad + SumCounts(sql_out.v.rows) = sql_out.v.total
            /\ sql_out.v.total = Len(input)
            /\ sql_out.v.bad = invalid

C4_Witness ==
    /\ pc = "done" /\ mem_out.kind = "returned" /\ sql_out.kind = "returned"
    /\ sql_out.v.total = 3 /\ sql_out.v.bad = 1 /\ Len(sql_out.v.rows) = 1
    /\ mem_out.v.total = 3 /\ mem_out.v.bad = 1

\* C7 as stated: under each of strict, ignore and replace a line that cannot
\* be decoded never aborts a counting pass.
C7_AsStated ==
    /\ mem_out # Raise("UnicodeDecodeError")
    /\ sql_out # Raise("UnicodeDecodeError")

\* how a counting pass over the input may end
PassOutcome(out) ==
    LET undec == \E i \in 1..Len(input) : Undecodable(input[i]) IN
    /\ out.kind \in {"returned", "raise"}
    /\ out = Raise("UnicodeDecodeError") <=> (args.errors = "strict" /\ undec)
    /\ (out.kind = "returned" /\ undec) =>
           (args.errors # "strict" /\ out.v.total = Len(input))
    /\ (out.kind = "raise" /\ out # Raise("UnicodeDecodeError")) =>
           (out = Raise("ValueError") /\ args.sep = <<>>)

\* C7 amended: under ignore and replace a line that cannot be decoded never
\* aborts a counting pass, which reads on to the end of the input; under
\* strict such a line makes the pass raise UnicodeDecodeError and return
\* neither table nor statistics.  Apart from that a pass that reads its
\* source is aborted only by the ValueError of an empty separator.
C7_Decode ==
    /\ pc \in {"mem_done", "sql_loop", "done"} => PassOutcome(mem_out)
    /\ pc = "done" => PassOutcome(sql_out)

C7_Witness ==
    /\ pc = "done" /\ args.errors = "replace"
    /\ Len(input) = 2 /\ Undecodable(input[1])
    /\ mem_out.kind = "returned" /\ mem_out.v.total = 2
    /\ sql_out.kind = "returned" /\ sql_out.v.total = 2

\* the canonical key of line i of the input, or none
KeyOfLine(i) ==
    LET k == extract_salt(TextLine(input, args.errors, i), args.sep) IN
    IF k.kind = "some" THEN Some(canonicalize_salt(k.v, args.hex_salts)) ELSE NoneV

\* how many of the first n lines of the input have the canonical key k
KeyLines(k, n) == Cardinality({i \in 1..n : KeyOfLine(i) = Some(k)})

InputKeys == {KeyOfLine(i).v : i \in {j \in 1..Len(input) : KeyOfLine(j).kind = "some"}}

Committed(table, k) == IF k \in DOMAIN table THEN table[k] ELSE 0
Pending(batch, k) == Cardinality({i \in 1..Len(batch) : batch[i] = k})
TableSum(table) == SumCounts(fetch_counts_sqlite(table))

\* between two iterations of the loop of the on-disk pass
C13_InLoop ==
    pc = "sql_loop" =>
        /\ Len(lp.batch) <= BATCH_SIZE
        /\ TableSum(lp.table) + Len(lp.batch) = lp.total - lp.bad
        /\ \A k \in InputKeys :
               Committed(lp.table, k) + Pending(lp.batch, k) = KeyLines(k, lp.pos)

\* after the normal return of the on-disk pass
C13_AtReturn ==
    (pc = "done" /\ sql_out.kind = "returned") =>
        /\ DOMAIN sql_out.v.table = InputKeys
        /\ \A k \in InputKeys : sql_out.v.table[k] = KeyLines(k, Len(input))

\* the table changes inside the loop by one whole batch at a time
C13_Commit ==
    (pc = "sql_loop" /\ pc' = "sql_loop") =>
        \/ lp'.table = lp.table
        \/ /\ lp'.batch = <<>>
           /\ TableSum(lp'.table) = TableSum(lp.table) + BATCH_SIZE
           /\ \A k \in InputKeys :
                  Committed(lp'.table, k) = Committed(lp.table, k)
                                            + Pending(lp.batch, k)
                                            + (IF KeyOfLine(lp.pos + 1) = Some(k) THEN 1 ELSE 0)

\* C13: during an on-disk counting pass the keys accepted and not yet
\* committed are never more than the batch size, a batch is committed whole
\* (every key of it inserted or incremented by one) and at the normal return
\* nothing is uncommitted: every valid line has added exactly one to the
\* count of its key.
C13_Batches == [](C13_InLoop /\ C13_AtReturn) /\ [][C13_Commit]_vars

C13_Witness ==
    /\ pc = "sql_loop" /\ lp.pos = 3 /\ lp.batch = <<<<"a">>>>
    /\ TableSum(lp.table) = BATCH_SIZE

----------------------------------------------------------------------------
(* Spec: main, invoked once and then again on the same command line and    *)
(* the same file                                                           *)

\* most lines of the input file of main
MaxMainLines == 2
\* invocations of the program in a row
MaxRuns == 2

MainPool == {La, Lb, Lx, Lbad}
\* what get_meminfo can report as available: nothing, or a number of bytes
AvailChoices == {NoInt, Known(337), Known(100000)}
\* what the user can type at the prompt
Eof == [kind |-> "eof", v |-> <<>>]
Answers == {Eof, Some(<<>>), Some(<<"y">>), Some(<<" ", "Y", "e", "s", " ">>),
            Some(<<"n">>), Some(<<"y", "e">>)}

\* the argparse defaults of the options the model does not vary
DefaultArgs(sep, errors, hex, method, preflight, db, prompt, yes, gz) ==
    [sep |-> sep, errors |-> errors, hex_salts |-> hex, method |-> method,
     preflight |-> preflight, sqlite_db |-> db, prompt_sqlite |-> prompt,
     assume_yes |-> yes, gz |-> gz,
     emit_combined |-> 0, emit_per_salt |-> 0, select_salts |-> <<>>,
     sqlite_threshold |-> 1,
     preflight_lines |-> 200000,
     mem_budget_frac |-> Frac(6, 10),
     preflight_uniq_growth |-> Frac(1, 1),
     preflight_gz_multiplier |-> Frac(10, 1),
     mem_overhead_base |-> Frac(200, 1),
     mem_overhead_per_char |-> Frac(2, 1)]

MainArgs ==
    {DefaultArgs(<<":">>, e, "keep", m, pf, db, pr, y, gz) :
        e \in ErrorPolicies, m \in {"auto", "mem", "sqlite"}, pf \in BOOLEAN,
        db \in {"", "counts.db"}, pr \in BOOLEAN, y \in BOOLEAN, gz \in BOOLEAN}

MainStart ==
    /\ pc = "main"
    /\ avail_mem = NoInt /\ mem_est = NoInt /\ chosen_method = "none"
    /\ counts = <<>> /\ rows = <<>> /\ total = 0 /\ bad = 0
    /\ passes = <<>> /\ answer = NoOut /\ sampled = FALSE

Init ==
    /\ MainStart
    /\ args \in MainArgs
    /\ input \in SeqsUpTo(MainPool, MaxMainLines)
    /\ disk = EmptyTable /\ run = 1 /\ prev = NoOut
    /\ fn = NoCall /\ lp = NoLoop
    /\ mem_out = NoOut /\ sql_out = NoOut /\ emit_out = NoOut

\* main, "Preflight", when the preflight runs
Preflight ==
    /\ pc = "main"
    /\ args.method \in {"auto", "mem"} /\ args.preflight
    /\ \E avail \in AvailChoices :
         /\ avail_mem' = avail
         /\ sampled' = avail.known
         /\ IF avail.known
            THEN LET r == preflight_estimate(input, args) IN
                 IF r.kind = "raise"
                 THEN /\ pc' = "crashed"
                      /\ UNCHANGED <<mem_est, chosen_method>>
                 ELSE /\ mem_est' = r.v.mem_est
                      /\ chosen_method' = PreflightChoice(args, avail, r.v.mem_est)
                      /\ pc' = "pass1"
            ELSE /\ chosen_method' = args.method
                 /\ pc' = "pass1"
                 /\ UNCHANGED mem_est
    /\ UNCHANGED <<args, input, disk, callVars, counts, rows, total, bad, passes,
                   answer, run, prev>>

\* main, "Preflight", when --method sqlite or --no-preflight skips it
NoPreflight ==
    /\ pc = "main"
    /\ ~(args.method \in {"auto", "mem"} /\ args.preflight)
    /\ chosen_method' = args.method
    /\ pc' = "pass1"
    /\ UNCHANGED <<args, input, disk, callVars, avail_mem, mem_est, counts, rows,
                   total, bad, passes, answer, sampled, run, prev>>

\* main, "Pass 1" in memory: count_salts_memory and most_common
Pass1Memory ==
    /\ pc = "pass1" /\ chosen_method \in {"auto", "mem"}
    /\ passes' = Append(passes, "mem")
    /\ LET r == count_salts_memory(input, args) IN
       IF r.kind = "raise"
       THEN /\ pc' = "crashed"
            /\ UNCHANGED <<counts, total, bad, rows>>
       ELSE /\ counts' = r.v.counts
            /\ total' = r.v.total
            /\ bad' = r.v.bad
            /\ rows' = most_common(r.v.counts)
            /\ pc' = "fallback"
    /\ UNCHANGED <<args, input, disk, callVars, avail_mem, mem_est, chosen_method,
                   answer, sampled, run, prev>>

\* main, the fallback threshold when ask_yes_no is not called
FallbackNoPrompt ==
    /\ pc = "fallback"
    /\ LET triggered == FallbackTriggered(args, chosen_method, Len(rows)) IN
       /\ ~(triggered /\ args.prompt_sqlite /\ ~args.assume_yes)
       /\ pc' = IF triggered /\ args.prompt_sqlite /\ args.assume_yes
                THEN "rerun" ELSE "summary"
    /\ UNCHANGED <<args, input, disk, callVars, mainVars>>

\* main, the fallback threshold when ask_yes_no asks the user
FallbackPrompt ==
    /\ pc = "fallback"
    /\ FallbackTriggered(args, chosen_method, Len(rows))
    /\ args.prompt_sqlite /\ ~args.assume_yes
    /\ \E typed \in Answers :
         /\ answer' = typed
         /\ pc' = IF ask_yes_no(typed, FALSE) THEN "rerun" ELSE "summary"
    /\ UNCHANGED <<args, input, disk, callVars, avail_mem, mem_est, chosen_method,
                   counts, rows, total, bad, passes, sampled, run, prev>>

\* count_salts_sqlite and fetch_counts_sqlite as main calls them
SqlitePass ==
    /\ passes' = Append(passes, "sqlite")
    /\ LET r == count_salts_sqlite(input, args, args.sqlite_db, disk) IN
       /\ disk' = IF args.sqlite_db = "" THEN disk ELSE r.table
       /\ IF r.kind = "raise"
          THEN /\ pc' = "crashed"
               /\ UNCHANGED <<total, bad, rows>>
          ELSE /\ total' = r.v.total
               /\ bad' = r.v.bad
               /\ rows' = fetch_counts_sqlite(r.v.table)
               /\ pc' = "summary"
    /\ UNCHANGED <<args, input, callVars, avail_mem, mem_est, chosen_method, counts,
                   answer, sampled, run, prev>>

\* main, "Re-running Pass 1 with SQLite"
RerunSqlite == pc = "rerun" /\ SqlitePass

\* main, "Pass 1" in SQLite from the start
Pass1Sqlite == pc = "pass1" /\ chosen_method = "sqlite" /\ SqlitePass

\* main, "Summary": the result is reported
Summary ==
    /\ pc = "summary"
    /\ pc' = "select"
    /\ UNCHANGED <<args, input, disk, callVars, mainVars>>

\* main, "Build selection for Pass 2" and the emission: second_pass_emit
\* runs when anything is selected
Emission ==
    /\ pc = "select"
    /\ LET c == EmitCall(args, rows) IN
       IF c.selected # {}
       THEN LET r == second_pass_emit(input, args, c) IN
            /\ emit_out' = r
            /\ pc' = IF r.kind = "raise" THEN "crashed" ELSE "done"
       ELSE /\ pc' = "done"
            /\ UNCHANGED emit_out
    /\ UNCHANGED <<args, input, disk, fn, lp, mem_out, sql_out, mainVars>>

\* the program is invoked again with the same command line on the same file;
\* the SQLite file at --sqlite-db is still there
NextRun ==
    /\ pc \in {"done", "crashed"} /\ run < MaxRuns
    /\ prev' = IF pc = "done"
               THEN Returned([rows |-> rows, total |-> total, bad |-> bad,
                              passes |-> passes])
               ELSE Raise("exit")
    /\ run' = run + 1
    /\ pc' = "main"
    /\ avail_mem' = NoInt /\ mem_est' = NoInt /\ chosen_method' = "none"
    /\ counts' = <<>> /\ rows' = <<>> /\ total' = 0 /\ bad' = 0
    /\ passes' = <<>> /\ answer' = NoOut /\ sampled' = FALSE
    /\ UNCHANGED <<args, input, disk, callVars>>

Next ==
    \/ Preflight \/ NoPreflight
    \/ Pass1Memory \/ FallbackNoPrompt \/ FallbackPrompt \/ RerunSqlite
    \/ Pass1Sqlite \/ Summary \/ Emission \/ NextRun

Spec == Init /\ [][Next]_vars

----------------------------------------------------------------------------
(* Claims about main *)

\* descending count, then ascending key
InReportOrder(rws) ==
    \A i, j \in 1..Len(rws) : i < j =>
        \/ rws[i][2] > rws[j][2]
        \/ rws[i][2] = rws[j][2] /\ StrLess(rws[i][1], rws[j][1])

\* C1 as stated: whichever backend produced the final table, the reported
\* rows are sorted by descending count and, among equal counts, by ascending
\* key.
C1_AsStated == pc = "done" => InReportOrder(rows)

\* C3 as stated: the program run twice in succession on the same input with
\* the same parameters, the same backend choice and the same table path
\* reports the same rows and pass statistics both times.
C3_AsStated ==
    (pc = "done" /\ run = 2 /\ prev.kind = "returned" /\ prev.v.passes = passes) =>
        /\ rows = prev.v.rows
        /\ total = prev.v.total
        /\ bad = prev.v.bad

\* C5: with --method auto and the preflight enabled, the first counting pass
\* is the on-disk pass if and only if an available-memory figure was
\* obtained, an estimate was produced and the estimate is strictly greater
\* than int(mem_budget_frac * avail_mem), and then no in-memory pass runs at
\* all; in every other case the first pass is the in-memory pass.
C5_FirstPass ==
    (args.method = "auto" /\ args.preflight /\ passes # <<>>) =>
        LET over == /\ avail_mem.known /\ mem_est.known
                    /\ 10 * mem_est.v > 6 * avail_mem.v - ((6 * avail_mem.v) % 10)
        IN  /\ passes[1] = "sqlite" <=> over
            /\ passes[1] = "mem" <=> ~over
            /\ over => \A i \in 1..Len(passes) : passes[i] # "mem"

C5_Witness ==
    /\ pc = "done" /\ args.method = "auto" /\ args.preflight
    /\ passes = <<"sqlite">> /\ mem_est = Known(404) /\ avail_mem = Known(337)

Confirmed ==
    \/ args.assume_yes
    \/ /\ answer.kind = "some"
       /\ answer.v \in {<<"y">>, <<" ", "Y", "e", "s", " ">>}

\* C6: an on-disk re-run follows a completed in-memory pass only when the
\* unique-key count is above the fallback threshold and the switch was
\* confirmed (answered yes, or pre-answered by --assume-yes); when the
\* threshold is not exceeded, the answer is no, empty or the end of input,
\* or prompting is disabled, no on-disk pass runs and the in-memory table
\* with its total and invalid counts is the final result.
C6_Fallback ==
    LET uniq == Len(counts) IN
    /\ (Len(passes) >= 2) =>
           /\ passes = <<"mem", "sqlite">>
           /\ uniq > args.sqlite_threshold
           /\ args.prompt_sqlite
           /\ Confirmed
    /\ (pc \in {"summary", "select", "done"} /\ passes # <<>> /\ passes[1] = "mem"
          /\ (uniq <= args.sqlite_threshold \/ ~args.prompt_sqlite \/ ~Confirmed)) =>
           /\ passes = <<"mem">>
           /\ Len(rows) = uniq
           /\ \A i \in 1..Len(rows) : \E j \in 1..Len(counts) : rows[i] = counts[j]
           /\ total = Len(input)
           /\ bad + SumCounts(counts) = total

C6_Witness ==
    /\ pc = "done" /\ passes = <<"mem", "sqlite">>
    /\ answer = Some(<<" ", "Y", "e", "s", " ">>)
    /\ Len(rows) = 2

C6_WitnessDeclined ==
    /\ pc = "done" /\ passes = <<"mem">> /\ answer = Eof /\ Len(rows) = 2

\* C15: an explicitly chosen backend is never overridden: with --method mem
\* no on-disk pass runs and the reported rows are those of the in-memory
\* table; with --method sqlite neither preflight_estimate nor an in-memory
\* pass runs.  The counting passes of an invocation are in-memory only,
\* on-disk only, or in-memory then on-disk; nothing follows an on-disk pass.
C15_Explicit ==
    /\ args.method = "mem" =>
           /\ \A i \in 1..Len(passes) : passes[i] = "mem"
           /\ pc \in {"summary", "select", "done"} =>
                  (passes = <<"mem">> /\ rows = most_common(counts))
    /\ args.method = "sqlite" =>
           /\ ~sampled /\ ~mem_est.known
           /\ \A i \in 1..Len(passes) : passes[i] = "sqlite"
    /\ passes \in {<<>>, <<"mem">>, <<"sqlite">>, <<"mem", "sqlite">>}
    /\ pc \in {"summary", "select", "done"} => passes # <<>>

C15_Witness ==
    /\ pc = "done" /\ args.method = "mem" /\ args.preflight /\ sampled
    /\ mem_est = Known(404) /\ avail_mem = Known(337)
    /\ Len(rows) = 2 /\ args.sqlite_threshold = 1
    /\ args.prompt_sqlite /\ args.assume_yes
    /\ passes = <<"mem">>

C15_WitnessSqlite ==
    /\ pc = "done" /\ args.method = "sqlite" /\ args.preflight
    /\ passes = <<"sqlite">> /\ Len(rows) = 2

----------------------------------------------------------------------------
(* SpecEmit: second_pass_emit called with any selection set *)

\* most lines of the input file of second_pass_emit
MaxEmitLines == 3

EmitPool == {La, Lb, Lx, Lbad, LhexU}
EmitKeys == {<<"a">>, HexPrefix \o <<"4", "a", "]">>, HexPrefix \o <<"4", "A", "]">>}

InitEmit ==
    /\ pc = "start"
    /\ args \in [sep : {<<":">>}, errors : ErrorPolicies, hex_salts : HexModes]
    /\ input \in SeqsUpTo(EmitPool, MaxEmitLines)
    /\ fn \in {[op |-> "second_pass_emit", selected |-> s, per_salt |-> ps, combined |-> cb] :
                 s \in SUBSET EmitKeys,
                 ps \in BOOLEAN, cb \in BOOLEAN}
    /\ disk = EmptyTable /\ lp = NoLoop
    /\ mem_out = NoOut /\ sql_out = NoOut /\ emit_out = NoOut
    /\ MainIdle

\* second_pass_emit up to its loop
EmitOpen ==
    /\ pc = "start" /\ fn.op = "second_pass_emit"
    /\ IF OpenRaises(input, args.errors)
       THEN /\ emit_out' = [kind |-> "raise", v |-> <<"UnicodeDecodeError">>,
                            combined |-> <<>>, writers |-> <<>>]
            /\ pc' = "done"
            /\ lp' = NoLoop
       ELSE /\ lp' = EmitStart
            /\ pc' = "emit_loop"
            /\ emit_out' = emit_out
    /\ UNCHANGED <<args, input, disk, fn, mem_out, sql_out, mainVars>>

\* one line of second_pass_emit
EmitStep ==
    /\ pc = "emit_loop" /\ lp.pos < Len(input)
    /\ LET st == EmitLine(lp, TextLine(input, args.errors, lp.pos + 1), args, fn) IN
       IF st.exc # ""
       THEN /\ emit_out' = [kind |-> "raise", v |-> <<st.exc>>,
                            combined |-> st.combined, writers |-> st.writers]
            /\ pc' = "done"
            /\ lp' = NoLoop
       ELSE /\ lp' = [st EXCEPT !.pos = @ + 1]
            /\ UNCHANGED <<pc, emit_out>>
    /\ UNCHANGED <<args, input, disk, fn, mem_out, sql_out, mainVars>>

\* the files are closed and second_pass_emit returns (examined, emitted)
EmitReturn ==
    /\ pc = "emit_loop" /\ lp.pos = Len(input)
    /\ emit_out' = [kind |-> "returned",
                    v |-> [examined |-> lp.examined, emitted |-> lp.emitted],
                    combined |-> lp.combined, writers |-> lp.writers]
    /\ pc' = "done"
    /\ lp' = NoLoop
    /\ UNCHANGED <<args, input, disk, fn, mem_out, sql_out, mainVars>>

NextEmit == EmitOpen \/ EmitStep \/ EmitReturn

SpecEmit == InitEmit /\ [][NextEmit]_vars

----------------------------------------------------------------------------
(* Claims about second_pass_emit *)

\* the lines open_maybe_gzip yields for the input
TextLines == [i \in 1..Len(input) |-> TextLine(input, args.errors, i)]

\* a line has a key and its canonical key is selected
LineSelected(line) ==
    LET k == extract_salt(line, args.sep) IN
    k.kind = "some" /\ canonicalize_salt(k.v, args.hex_salts) \in fn.selected

\* C8: with a combined destination second_pass_emit writes to it exactly the
\* input lines whose canonical key is in the selection set, each once and in
\* file order, and returns examined = the number of input lines and emitted
\* = the number of lines whose canonical key is in the selection set.
C8_Emit ==
    (pc = "done" /\ fn.op = "second_pass_emit" /\ emit_out.kind = "returned") =>
        /\ fn.combined => emit_out.combined = SelectSeq(TextLines, LineSelected)
        /\ emit_out.v.examined = Len(input)
        /\ emit_out.v.emitted = Cardinality({i \in 1..Len(input) : LineSelected(TextLines[i])})

C8_Witness ==
    /\ pc = "done" /\ fn.op = "second_pass_emit" /\ emit_out.kind = "returned"
    /\ fn.combined /\ args.hex_salts = "decode"
    /\ fn.selected = {<<"a">>, HexPrefix \o <<"4", "a", "]">>}
    /\ input = <<LhexU, Lx, La>>
    /\ emit_out.combined = <<LhexU, La>>
    /\ emit_out.v = [examined |-> 3, emitted |-> 2]

----------------------------------------------------------------------------
(* SpecSelect: main with the emission options given                        *)

SelectPool == {La, Lb, Lx, LhexU, LhexL}
Kb == <<"b">>
Kzz == <<"z", "z">>
KhexU == HexPrefix \o <<"4", "A", "]">>
KhexL == HexPrefix \o <<"4", "a", "]">>
\* what --select-salts can be: absent, or a list of salts
SelectChoices == {<<>>, <<Kb>>, <<KhexU, Kzz>>}

SelectArgs ==
    {[DefaultArgs(<<":">>, "replace", hx, m, TRUE, "", TRUE, FALSE, FALSE)
        EXCEPT !.emit_combined = ec, !.emit_per_salt = ep, !.select_salts = ss] :
        hx \in HexModes, m \in {"auto", "sqlite"},
        ec \in 0..MaxMainLines, ep \in {0, MaxMainLines}, ss \in SelectChoices}

InitSelect ==
    /\ MainStart
    /\ args \in SelectArgs
    /\ input \in SeqsUpTo(SelectPool, MaxMainLines)
    /\ disk = EmptyTable /\ run = 1 /\ prev = NoOut
    /\ fn = NoCall /\ lp = NoLoop
    /\ mem_out = NoOut /\ sql_out = NoOut /\ emit_out = NoOut

SpecSelect == InitSelect /\ [][Next]_vars

----------------------------------------------------------------------------
(* Claims about the emission main runs *)

\* a line has a key and its canonical key is one of the first
\* --emit-combined keys of the reported rows
LineInTop(line) ==
    LET k == extract_salt(line, args.sep) IN
    k.kind = "some"
    /\ canonicalize_salt(k.v, args.hex_salts) \in TopKeys(rows, args.emit_combined)

\* C11 as stated: with --emit-combined N, N > 0, the combined file holds all
\* lines of the N salts first in the sorted result and no line of any other
\* salt, whatever --emit-per-salt and --select-salts are.
C11_AsStated ==
    (pc = "done" /\ args.emit_combined > 0 /\ emit_out.kind = "returned") =>
        emit_out.combined = SelectSeq(TextLines, LineInTop)

\* the count a Counter gives a key
CountIn(cnt, k) ==
    IF \E i \in 1..Len(cnt) : cnt[i][1] = k
    THEN cnt[CHOOSE i \in 1..Len(cnt) : cnt[i][1] = k][2]
    ELSE 0

RECURSIVE SumOver(_, _)
SumOver(S, cnt) ==
    IF S = {} THEN 0
    ELSE LET k == CHOOSE x \in S : TRUE IN CountIn(cnt, k) + SumOver(S \ {k}, cnt)

\* C14: on the same input, separator and hex handling, the number of lines
\* second_pass_emit emits for a selection set is the sum over the keys of
\* the set of the counts a counting pass from an empty table gives them, a
\* key not in the table counting zero; every --select-salts value is in the
\* set in its canonical form.
C14_Emitted ==
    (pc = "done" /\ emit_out.kind = "returned") =>
        LET mem == count_salts_memory(input, args)
            sql == count_salts_sqlite(input, args, "", EmptyTable)
            S == emit_out.call.selected
        IN  /\ mem.kind = "returned" /\ sql.kind = "returned"
            /\ emit_out.v.emitted = SumOver(S, mem.v.counts)
            /\ emit_out.v.emitted = SumOver(S, fetch_counts_sqlite(sql.v.table))
            /\ \A i \in 1..Len(args.select_salts) :
                   canonicalize_salt(args.select_salts[i], args.hex_salts) \in S

C14_Witness ==
    /\ pc = "done" /\ emit_out.kind = "returned"
    /\ args.hex_salts = "decode" /\ args.select_salts = <<KhexU, Kzz>>
    /\ args.emit_combined = 0 /\ args.emit_per_salt = 0
    /\ input = <<LhexU, LhexL>>
    /\ emit_out.call.selected = {KhexL, Kzz}
    /\ emit_out.v.emitted = 2

----------------------------------------------------------------------------
(* SpecPreflight: preflight_estimate called on a file                      *)

PreflightPool == {La, Lb, Lx, Lbad, LhexU}
\* values of --preflight-uniq-growth and --preflight-lines
GrowthChoices == {Frac(1, 2), Frac(1, 1), Frac(3, 1)}
SampleChoices == {1, 2, 200000}

PreflightArgs ==
    {[DefaultArgs(<<":">>, e, hx, "auto", TRUE, "", TRUE, FALSE, gz)
        EXCEPT !.preflight_uniq_growth = g, !.preflight_lines = n] :
        e \in ErrorPolicies, hx \in HexModes, gz \in BOOLEAN,
        g \in GrowthChoices, n \in SampleChoices}

InitPreflight ==
    /\ pc = "call"
    /\ fn = [op |-> "preflight_estimate", out |-> NoOut]
    /\ args \in PreflightArgs
    /\ input \in SeqsUpTo(PreflightPool, MaxLines)
    /\ disk = EmptyTable /\ lp = NoLoop
    /\ mem_out = NoOut /\ sql_out = NoOut /\ emit_out = NoOut
    /\ MainIdle

CallPreflight ==
    /\ pc = "call" /\ fn.op = "preflight_estimate"
    /\ fn' = [fn EXCEPT !.out = preflight_estimate(input, args)]
    /\ pc' = "returned"
    /\ UNCHANGED <<args, input, disk, lp, mem_out, sql_out, emit_out, mainVars>>

SpecPreflight == InitPreflight /\ [][CallPreflight]_vars

----------------------------------------------------------------------------
(* Claims about preflight_estimate *)

\* C12 as stated: whenever preflight_estimate returns an estimate with a
\* known projected line count, the projected unique-key count is at most
\* the projected line count and at least the number of distinct canonical
\* keys seen in the sample.
C12_AsStated ==
    (pc = "returned" /\ fn.op = "preflight_estimate" /\ fn.out.kind = "returned"
       /\ fn.out.v.mem_est.known /\ fn.out.v.lines_est.known) =>
        /\ fn.out.v.uniq_est <= fn.out.v.lines_est.v
        /\ fn.out.v.uniq_est >= fn.out.v.uniq_sample

====
